---- MODULE Spec2Model ----
(***************************************************************************)
(* Moving-average-crossover trading simulation (src/main.cpp).             *)
(*                                                                         *)
(* The program computes in C++ `double`.  A double is modelled as a binary *)
(* floating-point number of the same kind with a shorter significand: an   *)
(* integer count of units of 2^-FracBits that carries at most MantBits     *)
(* significant bits, every operation rounding its exact result to the      *)
(* nearest such number, ties to even (the IEEE-754 default the build       *)
(* uses).  Integers below 2^(MantBits-FracBits) are exact, as small        *)
(* integers are in a double.                                               *)
(***************************************************************************)
EXTENDS Integers, Sequences, FiniteSets, TLC

\* ---------------------------------------------------------------- bounds
MantBits == 16
FracBits == 7
MaxDays == 6
MaxHist == 4
MaxSeed == 9

\* ------------------------------------------------------ program constants
StartCash == 10000
NumDays == 200
DefaultShortWindow == 10
DefaultLongWindow == 30
StartPrice == 100
PriceFloor == 10

\* ------------------------------------------------------------ double model
Unit == 2^FracBits
TwoP == 2^MantBits

\* the double with the integer value n
D(n) == n * Unit

Abs(n) == IF n < 0 THEN 0 - n ELSE n

\* spacing of the representable numbers around magnitude m (in units)
RECURSIVE Ulp(_, _)
Ulp(m, step) == IF m \div step < TwoP THEN step ELSE Ulp(m, 2 * step)

\* q + r/d (0 <= r < d, q >= 0) rounded to the nearest representable
\* magnitude, ties to the even significand
RoundNearestEven(q, r, d) ==
  LET step == Ulp(q, 1)
      rem  == q % step
      lo   == q - rem
      up   == \/ 2 * rem > step
              \/ (2 * rem = step /\ r > 0)
              \/ (step = 1 /\ 2 * r > d)
      tie  == \/ (2 * rem = step /\ r = 0)
              \/ (step = 1 /\ 2 * r = d)
  IN IF up THEN lo + step
     ELSE IF tie /\ (lo \div step) % 2 = 1 THEN lo + step
     ELSE lo

\* an exact integer count of units, rounded to a double
Fl(n) == IF n < 0 THEN 0 - RoundNearestEven(0 - n, 0, 1)
         ELSE RoundNearestEven(n, 0, 1)

FlAdd(a, b) == Fl(a + b)
FlSub(a, b) == Fl(a - b)

\* int * double: the int converts exactly, the product is rounded
FlMulInt(k, x) == Fl(k * x)

\* the special values of a double: not-a-number and the infinities, encoded
\* outside the range of the finite values
NaN == 0 - 2^30
Inf == 2^30 - 1

\* double / double, b >= 0; 0.0 / 0.0 is NaN, x / 0.0 is an infinity
FlDiv(a, b) ==
  LET m == Abs(a)
      q == (m \div b) * Unit + ((m % b) * Unit) \div b
      r == ((m % b) * Unit) % b
      v == RoundNearestEven(q, r, b)
  IN IF b = 0 THEN (IF a = 0 THEN NaN ELSE IF a < 0 THEN 0 - Inf ELSE Inf)
     ELSE IF a < 0 THEN 0 - v ELSE v

\* double -> int conversion truncates toward zero
ToInt(x) == IF x < 0 THEN 0 - ((0 - x) \div Unit) ELSE x \div Unit

\* comparisons of doubles: every comparison with a NaN is false
DGt(a, b) == a # NaN /\ b # NaN /\ a > b
DLt(a, b) == a # NaN /\ b # NaN /\ a < b
DLe(a, b) == a # NaN /\ b # NaN /\ a <= b
DGe(a, b) == a # NaN /\ b # NaN /\ a >= b

\* size_t < int: the int converts to size_t, a negative one to a huge value
SizeLt(n, k) == IF k < 0 THEN TRUE ELSE n < k

\* ------------------------------------------------------------ calculateSMA
\* std::accumulate(first, last, 0.0): left fold, each partial sum rounded
RECURSIVE Accumulate(_, _, _, _)
Accumulate(prices, lo, hi, sum) ==
  IF lo > hi THEN sum
  ELSE Accumulate(prices, lo + 1, hi, FlAdd(sum, prices[lo]))

\* mutant: with too little history the mean of what is there is returned
calculateSMA_Partial(prices, period) ==
  IF Len(prices) = 0 \/ period <= 0 THEN 0
  ELSE LET n == IF period < Len(prices) THEN period ELSE Len(prices)
       IN FlDiv(Accumulate(prices, Len(prices) - n + 1, Len(prices), 0), D(n))

calculateSMA(prices, period) ==
  IF SizeLt(Len(prices), period) THEN 0
  ELSE FlDiv(Accumulate(prices, Len(prices) - period + 1, Len(prices), 0),
             D(period))

\* ------------------------------------------------------------------ state
VARIABLES marketData, shortWindow, longWindow,
          i, currentPrices, portfolioValue, sharesOwned, positionOpen,
          prevShortSMA, prevLongSMA, pc, events,
          smaPrices, smaPeriod, smaResult, smaPc,
          lastPrice, seed

params == <<marketData, shortWindow, longWindow>>
locals == <<i, currentPrices, portfolioValue, sharesOwned, positionOpen,
            prevShortSMA, prevLongSMA, pc, events>>
smaVars == <<smaPrices, smaPeriod, smaResult, smaPc>>
genVars == <<lastPrice, seed>>
vars == <<params, locals, smaVars, genVars>>

\* prices of the simulated series: 10.0, 20.0 and 36.1015625
Prices == {D(PriceFloor), D(2 * PriceFloor), D(36) + 13}
Configs == {<<1, 2>>, <<2, 3>>}
SeriesSet == UNION {[1..n -> Prices] : n \in 0..MaxDays}

Last(s) == s[Len(s)]

\* ------------------------------------------------- runTradingSimulation
\* mutant: warm-up ends one day early
NotWarm_OffByOne(prices, lw) == SizeLt(Len(prices), lw - 1)


NotWarm(prices, lw) == SizeLt(Len(prices), lw)

\* mutants: the position guard dropped; >= for >; < for <= on the previous pair
GoldenCross_NoOpenGuard(s, l, ps, pl, open) == DGt(s, l) /\ DLe(ps, pl)
GoldenCross_NonStrict(s, l, ps, pl, open) == DGe(s, l) /\ DLe(ps, pl) /\ ~open
GoldenCross_StrictPrev(s, l, ps, pl, open) == DGt(s, l) /\ DLt(ps, pl) /\ ~open
\* mutant: the previous pair compared the wrong way round
GoldenCross_SwappedPrev(s, l, ps, pl, open) == DGt(s, l) /\ DLe(pl, ps) /\ ~open


GoldenCross(s, l, ps, pl, open) == DGt(s, l) /\ DLe(ps, pl) /\ ~open

\* mutant: > for >= on the previous pair
DeathCross_StrictPrev(s, l, ps, pl, open) == DLt(s, l) /\ DGt(ps, pl) /\ open
\* mutant: <= for <
DeathCross_NonStrict(s, l, ps, pl, open) == DLe(s, l) /\ DGe(ps, pl) /\ open


DeathCross(s, l, ps, pl, open) == DLt(s, l) /\ DGe(ps, pl) /\ open

SharesToBuy(cash, price) == ToInt(FlDiv(cash, price))

CashAfterBuy(cash, n, price) == FlSub(cash, FlMulInt(n, price))

\* mutant: one share is left out of the sale
SaleValue_OneShort(shares, price) == FlMulInt(shares - 1, price)


SaleValue(shares, price) == FlMulInt(shares, price)

FinalSaleValue(shares, price) == FlMulInt(shares, price)

InitLocals ==
  /\ i = 0
  /\ currentPrices = <<>>
  /\ portfolioValue = D(StartCash)
  /\ sharesOwned = 0
  /\ positionOpen = FALSE
  /\ prevShortSMA = 0
  /\ prevLongSMA = 0
  /\ events = <<>>

SMAIdle ==
  /\ smaPrices = <<>>
  /\ smaPeriod = 1
  /\ smaResult = 0
  /\ smaPc = "off"

GenIdle ==
  /\ lastPrice = D(StartPrice)
  /\ seed = 0

\* entry of runTradingSimulation with a series and a pair of windows
InitOver(series, configs) ==
  /\ marketData \in series
  /\ \E c \in configs : shortWindow = c[1] /\ longWindow = c[2]
  /\ InitLocals
  /\ pc = "loop"
  /\ SMAIdle
  /\ GenIdle

Init == InitOver(SeriesSet, Configs)

\* mutant: the previous pair is updated only on a day without a signal
Day_PrevOnNoSignal ==
  /\ pc = "loop"
  /\ i < Len(marketData)
  /\ LET price    == marketData[i + 1]
         prices   == Append(currentPrices, price)
         shortSMA == calculateSMA(prices, shortWindow)
         longSMA  == calculateSMA(prices, longWindow)
     IN /\ currentPrices' = prices
        /\ i' = i + 1
        /\ IF NotWarm(prices, longWindow)
           THEN UNCHANGED <<portfolioValue, sharesOwned, positionOpen,
                            prevShortSMA, prevLongSMA, events>>
           ELSE /\ IF GoldenCross(shortSMA, longSMA, prevShortSMA,
                                  prevLongSMA, positionOpen)
                      \/ DeathCross(shortSMA, longSMA, prevShortSMA,
                                    prevLongSMA, positionOpen)
                   THEN UNCHANGED <<prevShortSMA, prevLongSMA>>
                   ELSE /\ prevShortSMA' = shortSMA
                        /\ prevLongSMA' = longSMA
                /\ IF GoldenCross(shortSMA, longSMA, prevShortSMA,
                                  prevLongSMA, positionOpen)
                   THEN LET sharesToBuy == SharesToBuy(portfolioValue, price)
                        IN /\ sharesOwned' = sharesToBuy
                           /\ portfolioValue' =
                                CashAfterBuy(portfolioValue, sharesToBuy, price)
                           /\ positionOpen' = TRUE
                           /\ events' = Append(events,
                                [kind |-> "BUY", day |-> i + 1,
                                 price |-> price, shares |-> sharesToBuy])
                   ELSE IF DeathCross(shortSMA, longSMA, prevShortSMA,
                                      prevLongSMA, positionOpen)
                   THEN LET saleValue == SaleValue(sharesOwned, price)
                            value == FlAdd(portfolioValue, saleValue)
                        IN /\ portfolioValue' = value
                           /\ events' = Append(events,
                                [kind |-> "SELL", day |-> i + 1,
                                 price |-> price, shares |-> sharesOwned,
                                 value |-> value])
                           /\ sharesOwned' = 0
                           /\ positionOpen' = FALSE
                   ELSE UNCHANGED <<portfolioValue, sharesOwned,
                                    positionOpen, events>>
  /\ pc' = pc
  /\ UNCHANGED <<params, smaVars, genVars>>

\* one iteration of the day loop
Day ==
  /\ pc = "loop"
  /\ i < Len(marketData)
  /\ LET price    == marketData[i + 1]
         prices   == Append(currentPrices, price)
         shortSMA == calculateSMA(prices, shortWindow)
         longSMA  == calculateSMA(prices, longWindow)
     IN /\ currentPrices' = prices
        /\ i' = i + 1
        /\ IF NotWarm(prices, longWindow)
           THEN UNCHANGED <<portfolioValue, sharesOwned, positionOpen,
                            prevShortSMA, prevLongSMA, events>>
           ELSE /\ prevShortSMA' = shortSMA
                /\ prevLongSMA' = longSMA
                /\ IF GoldenCross(shortSMA, longSMA, prevShortSMA,
                                  prevLongSMA, positionOpen)
                   THEN LET sharesToBuy == SharesToBuy(portfolioValue, price)
                        IN /\ sharesOwned' = sharesToBuy
                           /\ portfolioValue' =
                                CashAfterBuy(portfolioValue, sharesToBuy, price)
                           /\ positionOpen' = TRUE
                           /\ events' = Append(events,
                                [kind |-> "BUY", day |-> i + 1,
                                 price |-> price, shares |-> sharesToBuy])
                   ELSE IF DeathCross(shortSMA, longSMA, prevShortSMA,
                                      prevLongSMA, positionOpen)
                   THEN LET saleValue == SaleValue(sharesOwned, price)
                            value == FlAdd(portfolioValue, saleValue)
                        IN /\ portfolioValue' = value
                           /\ events' = Append(events,
                                [kind |-> "SELL", day |-> i + 1,
                                 price |-> price, shares |-> sharesOwned,
                                 value |-> value])
                           /\ sharesOwned' = 0
                           /\ positionOpen' = FALSE
                   ELSE UNCHANGED <<portfolioValue, sharesOwned,
                                    positionOpen, events>>
  /\ pc' = pc
  /\ UNCHANGED <<params, smaVars, genVars>>

\* the code after the loop: end-of-run liquidation and the final report
Finish ==
  /\ pc = "loop"
  /\ i = Len(marketData)
  /\ IF positionOpen
     THEN LET value == FlAdd(portfolioValue,
                             FinalSaleValue(sharesOwned, Last(marketData)))
          IN /\ portfolioValue' = value
             /\ events' = events \o
                  <<[kind |-> "END", shares |-> sharesOwned,
                     price |-> Last(marketData)],
                    [kind |-> "FINAL", value |-> value]>>
     ELSE /\ portfolioValue' = portfolioValue
          /\ events' = Append(events,
                              [kind |-> "FINAL", value |-> portfolioValue])
  /\ pc' = "done"
  /\ UNCHANGED <<params, smaVars, genVars, i, currentPrices, sharesOwned,
                 positionOpen, prevShortSMA, prevLongSMA>>

Next == Day \/ Finish

Spec == Init /\ [][Next]_vars

\* ------------------------------------- runs with an invalid configuration
\* a window that is zero or negative
InvalidConfigs ==
  {<<0, 2>>, <<1, 0>>, <<0 - 1, 2>>, <<1, 0 - 1>>, <<0, 0>>}

InitBadCfg == InitOver(SeriesSet, InvalidConfigs)

SpecBadCfg == InitBadCfg /\ [][Next]_vars

\* --------------------------------------- runs with any positive windows
\* shortWindow < longWindow, = longWindow and > longWindow
PositiveConfigs == {<<1, 2>>, <<2, 2>>, <<3, 2>>, <<2, 1>>}

InitDegenerate == InitOver(SeriesSet, PositiveConfigs)

SpecDegenerate == InitDegenerate /\ [][Next]_vars

\* ------------------------------------ runs with prices above the cash
\* series over 8000.0, 20000.0 and 30000.0
HighPrices == {D(8000), D(2 * StartCash), D(3 * StartCash)}
HighSeriesSet == UNION {[1..n -> HighPrices] : n \in 0..MaxDays}

InitHigh == InitOver(HighSeriesSet, Configs)

SpecHigh == InitHigh /\ [][Next]_vars

\* ---------------------------------------------- the monotone ramp run
\* price[k] = 100 + k for k = 1..200, windows 10 and 30
InitRamp ==
  /\ marketData = [k \in 1..NumDays |-> D(StartPrice + k)]
  /\ shortWindow = DefaultShortWindow
  /\ longWindow = DefaultLongWindow
  /\ InitLocals
  /\ pc = "loop"
  /\ SMAIdle
  /\ GenIdle

SpecRamp == InitRamp /\ [][Next]_vars

\* ------------------------------------------------------------------ main
\* std::mt19937 gen(rd()) with std::normal_distribution<> d(0.0, 1.5): the
\* seed is drawn from the random device, the k-th draw d(gen) is then a
\* function of the seed; the draws are taken from a table of increments
\* 3.0, -2.0, -45.0, 1.6015625, -0.4296875, 0.0, -60.0, 20.0
ChangeTable ==
  <<D(3), 0 - D(2), 0 - D(45), D(1) + 77, 0 - 55, D(0), 0 - D(60), D(20)>>

DrawChange(sd, k) == ChangeTable[((sd * k + sd \div 2) % Len(ChangeTable)) + 1]

\* mutant: only a non-positive price is lifted to the floor
Clamp_NonPositive(x) == IF x <= 0 THEN D(PriceFloor) ELSE x

\* if (lastPrice < 10.0) lastPrice = 10.0
Clamp(x) == IF DLt(x, D(PriceFloor)) THEN D(PriceFloor) ELSE x

InitMain ==
  /\ seed \in 0..MaxSeed
  /\ lastPrice = D(StartPrice)
  /\ marketData = <<>>
  /\ shortWindow = 0
  /\ longWindow = 0
  /\ InitLocals
  /\ pc = "gen"
  /\ SMAIdle

\* one iteration of the generating loop
GenStep ==
  /\ pc = "gen"
  /\ Len(marketData) < NumDays
  /\ LET change == DrawChange(seed, Len(marketData) + 1)
         price  == Clamp(FlAdd(lastPrice, change))
     IN /\ lastPrice' = price
        /\ marketData' = Append(marketData, price)
  /\ UNCHANGED <<shortWindow, longWindow, locals, smaVars, seed>>

\* the windows are set and runTradingSimulation is entered
CallRun ==
  /\ pc = "gen"
  /\ Len(marketData) = NumDays
  /\ shortWindow' = DefaultShortWindow
  /\ longWindow' = DefaultLongWindow
  /\ pc' = "loop"
  /\ UNCHANGED <<marketData, i, currentPrices, portfolioValue, sharesOwned,
                 positionOpen, prevShortSMA, prevLongSMA, events,
                 smaVars, genVars>>

NextMain == GenStep \/ CallRun \/ Day \/ Finish

SpecMain == InitMain /\ [][NextMain]_vars

\* ------------------------------------------ calculateSMA on its own
\* histories over 10.0, 20.0 and 341.359375
SMAPrices == {D(PriceFloor), D(2 * PriceFloor), D(341) + 46}
HistSet == UNION {[1..n -> SMAPrices] : n \in 0..MaxHist}

InitSMA ==
  /\ smaPrices \in HistSet
  /\ smaPeriod \in (0 - 1)..(MaxHist + 1)
  /\ smaResult = 0
  /\ smaPc = "call"
  /\ marketData = <<>>
  /\ shortWindow = DefaultShortWindow
  /\ longWindow = DefaultLongWindow
  /\ InitLocals
  /\ pc = "off"
  /\ GenIdle

CallSMA ==
  /\ smaPc = "call"
  /\ smaResult' = calculateSMA(smaPrices, smaPeriod)
  /\ smaPc' = "ret"
  /\ UNCHANGED <<params, locals, genVars, smaPrices, smaPeriod>>

NextSMA == CallSMA

SpecSMA == InitSMA /\ [][NextSMA]_vars

\* ------------------------------------------------ vocabulary of the claims
IsSignal(e) == e.kind \in {"BUY", "SELL"}
Signals == SelectSeq(events, IsSignal)

\* the step is one iteration of the day loop
DayStep == i' = i + 1
\* the step emitted a BUY / a SELL line
BuyStep == Len(events') = Len(events) + 1 /\ Last(events').kind = "BUY"
SellStep == Len(events') = Len(events) + 1 /\ Last(events').kind = "SELL"
\* the step is the code after the loop
FinishStep == pc = "loop" /\ pc' = "done"
\* the day of the step is warmed up: at least longWindow prices observed
WarmDay == DayStep /\ Len(currentPrices') >= longWindow
\* the averages of the day of the step
ShortToday == calculateSMA(currentPrices', shortWindow)
LongToday == calculateSMA(currentPrices', longWindow)

\* ------------------------------------------------------------------ C1
\* C1: in every state of a run over prices that are all >= 10, cash
\* (portfolioValue) is >= 0 and sharesOwned is >= 0.
C1_NeverNegative ==
  (\A k \in 1..Len(marketData) : marketData[k] >= D(PriceFloor))
    => (portfolioValue >= 0 /\ sharesOwned >= 0)

\* ------------------------------------------------------------------ C2
Alternates(s) ==
  \A k \in 1..Len(s) : s[k].kind = (IF k % 2 = 1 THEN "BUY" ELSE "SELL")

\* C2: a BUY never fires while a position is open, a SELL never fires while
\* none is open, a day emits at most one of them, and the emitted BUY/SELL
\* lines alternate BUY, SELL, BUY, ... starting with a BUY.
C2_OnePosition ==
  /\ [][/\ (BuyStep => ~positionOpen)
        /\ (SellStep => positionOpen)
        /\ (DayStep => Len(events') <= Len(events) + 1)
        /\ (DayStep => Len(Signals') - Len(Signals) = Len(events') - Len(events))
       ]_vars
  /\ [](Alternates(Signals))

C2_Witness ==
  Len(Signals) >= 3 /\ Signals[3].kind = "BUY" /\ positionOpen

\* ------------------------------------------------------------------ C3
\* C3: on every warmed-up day a BUY fires exactly when shortSMA > longSMA,
\* prevShortSMA <= prevLongSMA and no position is open; a BUY that fires
\* opens the position.
C3_BuyRule ==
  [][WarmDay =>
       /\ BuyStep <=> (/\ ShortToday > LongToday
                       /\ prevShortSMA <= prevLongSMA
                       /\ ~positionOpen)
       /\ BuyStep => positionOpen'
    ]_vars

C3_Witness ==
  /\ Len(events) > 0
  /\ Last(events).kind = "BUY"
  /\ Last(events).day = i
  /\ i > longWindow
  /\ positionOpen

\* ------------------------------------------------------------------ C4
\* C4: on every warmed-up day a SELL fires exactly when shortSMA < longSMA,
\* prevShortSMA >= prevLongSMA and a position is open; a SELL that fires
\* closes the position.
C4_SellRule ==
  [][WarmDay =>
       /\ SellStep <=> (/\ ShortToday < LongToday
                        /\ prevShortSMA >= prevLongSMA
                        /\ positionOpen)
       /\ SellStep => ~positionOpen'
    ]_vars

C4_Witness ==
  /\ Len(events) > 0
  /\ Last(events).kind = "SELL"
  /\ Last(events).day = i
  /\ ~positionOpen

\* ------------------------------------------------------------------ C5
\* C5: a day with fewer than longWindow prices observed emits nothing and
\* changes only the observed history; a series shorter than longWindow
\* ends with no event and the starting cash as the final value.
C5_WarmUpInert ==
  /\ [][(DayStep /\ Len(currentPrices') < longWindow) =>
          /\ currentPrices' = Append(currentPrices, marketData[i + 1])
          /\ UNCHANGED <<prevShortSMA, prevLongSMA, positionOpen,
                         portfolioValue, sharesOwned, events>>
       ]_vars
  /\ []((pc = "done" /\ Len(marketData) < longWindow) =>
          /\ Signals = <<>>
          /\ portfolioValue = D(StartCash)
          /\ events = <<[kind |-> "FINAL", value |-> D(StartCash)]>>)

C5_Witness ==
  /\ pc = "done"
  /\ Len(marketData) > 0
  /\ Len(marketData) < longWindow
  /\ Len(currentPrices) = Len(marketData)

\* ------------------------------------------------------------------ C6
\* C6: on the ramp price[k] = 100 + k, k = 1..200, windows 10 and 30:
\* exactly one BUY fires, on day 30, no SELL ever fires, and the final
\* value is floor(10000/price[30]) * price[200]
\*          + (10000 - floor(10000/price[30]) * price[30]).
C6_Ramp ==
  LET buyDay == DefaultLongWindow
      n      == D(StartCash) \div marketData[buyDay]
  IN /\ \A k \in 1..Len(events) : events[k].kind # "SELL"
     /\ (i < buyDay => Signals = <<>>)
     /\ (i >= buyDay => /\ Len(Signals) = 1
                        /\ Signals[1].kind = "BUY"
                        /\ Signals[1].day = buyDay)
     /\ (pc = "done" =>
           /\ Last(events).kind = "FINAL"
           /\ Last(events).value = portfolioValue
           /\ portfolioValue = n * marketData[NumDays]
                               + (D(StartCash) - n * marketData[buyDay]))

C6_Witness ==
  /\ pc = "done"
  /\ Len(marketData) = NumDays
  /\ i = NumDays
  /\ Len(events) = 3
  /\ events[2].kind = "END"

\* ------------------------------------------------------------------ C7
\* C7: the end-of-run step with a position open adds sharesOwned * lastPrice
\* to cash and leaves no open position (sharesOwned 0, position closed);
\* with no position open it leaves cash unchanged; the reported final
\* value is cash.
C7_ForcedClose ==
  [][FinishStep =>
       /\ positionOpen =>
            /\ portfolioValue' =
                 FlAdd(portfolioValue, FlMulInt(sharesOwned, Last(marketData)))
            /\ sharesOwned' = 0
            /\ ~positionOpen'
       /\ ~positionOpen => portfolioValue' = portfolioValue
       /\ Last(events').kind = "FINAL"
       /\ Last(events').value = portfolioValue'
    ]_vars

\* ------------------------------------------------------------------ C8
\* C8: a BUY with cash c at price p > 0 sets sharesOwned to floor(c / p) and
\* cash to c - floor(c / p) * p (the program's double arithmetic), so that
\* 0 <= cash < p afterwards.
C8_OpenPosition ==
  [][BuyStep =>
       LET c == portfolioValue
           p == marketData[i + 1]
           n == ToInt(FlDiv(c, p))
       IN p > 0 => /\ sharesOwned' = n
                   /\ portfolioValue' = Fl(c - Fl(n * p))
                   /\ 0 <= portfolioValue'
                   /\ portfolioValue' < p
    ]_vars

\* ------------------------------------------------------------------ C9
\* the day of the step shows a Death Cross
DeathCrossToday == ShortToday < LongToday /\ prevShortSMA >= prevLongSMA

\* C9: a SELL at price p with s shares held raises cash by s * p (the
\* double product added by a double addition), resets sharesOwned to 0,
\* and fires on exactly the day of the Death Cross.
C9_ClosePosition ==
  [][/\ SellStep =>
          /\ portfolioValue' =
               Fl(portfolioValue + Fl(sharesOwned * marketData[i + 1]))
          /\ sharesOwned' = 0
          /\ Last(events').day = i + 1
          /\ Last(events').shares = sharesOwned
          /\ Last(events').value = portfolioValue'
     /\ (WarmDay /\ positionOpen) => (SellStep <=> DeathCrossToday)
    ]_vars

C9_Witness ==
  /\ Len(events) > 0
  /\ Last(events).kind = "SELL"
  /\ Last(events).shares > 0
  /\ sharesOwned = 0
  /\ portfolioValue = Last(events).value
  /\ portfolioValue > 0

\* ----------------------------------------------------------------- C10
\* C10: for 0 < period <= len(history), calculateSMA returns the mean of the
\* last period prices, a value between the least and the greatest of them.
C10_MeanInRange ==
  (smaPc = "ret" /\ 0 < smaPeriod /\ smaPeriod <= Len(smaPrices)) =>
    LET n == Len(smaPrices)
        W == {smaPrices[k] : k \in (n - smaPeriod + 1)..n}
    IN /\ smaResult = FlDiv(Accumulate(smaPrices, n - smaPeriod + 1, n, 0),
                            D(smaPeriod))
       /\ \E x \in W : x <= smaResult
       /\ \E x \in W : smaResult <= x

\* ----------------------------------------------------------------- C11
\* C11: for period > len(history), calculateSMA returns exactly the
\* sentinel 0.0, as a normal return value.
C11_Sentinel ==
  (smaPc = "ret" /\ smaPeriod > Len(smaPrices)) => smaResult = 0

C11_Witness ==
  /\ smaPc = "ret"
  /\ Len(smaPrices) > 0
  /\ smaPeriod > Len(smaPrices)
  /\ smaResult = 0

\* ----------------------------------------------------------------- C12
\* C12: with shortWindow <= 0 or longWindow <= 0 the run fails fast: no day
\* is processed and no BUY, SELL or final value is produced.
C12_FailFast ==
  (shortWindow <= 0 \/ longWindow <= 0) =>
    /\ i = 0
    /\ \A k \in 1..Len(events) : events[k].kind \notin {"BUY", "SELL", "FINAL"}

\* ----------------------------------------------------------------- C13
PrevPrice(k) == IF k = 1 THEN D(StartPrice) ELSE marketData[k - 1]

\* C13: the generator yields exactly 200 prices, each the greater of 10 and
\* the previous price plus the drawn increment (the previous price of the
\* first day being 100), so every generated price is >= 10.
C13_Generator ==
  /\ Len(marketData) <= NumDays
  /\ (pc # "gen" => Len(marketData) = NumDays)
  /\ \A k \in 1..Len(marketData) :
       LET x == Fl(PrevPrice(k) + DrawChange(seed, k))
       IN /\ marketData[k] = (IF x > D(PriceFloor) THEN x ELSE D(PriceFloor))
          /\ marketData[k] >= D(PriceFloor)

C13_Witness ==
  /\ pc = "loop"
  /\ i = 0
  /\ Len(marketData) = NumDays
  /\ \E k \in 1..NumDays :
       /\ marketData[k] = D(PriceFloor)
       /\ Fl(PrevPrice(k) + DrawChange(seed, k)) < D(PriceFloor)
  /\ \E k \in 1..NumDays : marketData[k] > D(StartPrice)

\* ----------------------------------------------------------------- C15
\* the averages of day k of the run
ShortOn(k) == calculateSMA(SubSeq(marketData, 1, k), shortWindow)
LongOn(k) == calculateSMA(SubSeq(marketData, 1, k), longWindow)
\* the warmed-up days so far on which shortSMA > longSMA
AboveDays == {k \in 1..i : k >= longWindow /\ ShortOn(k) > LongOn(k)}
Least(S) == CHOOSE k \in S : \A j \in S : k <= j

\* C15: the first BUY of a run fires on the first warmed-up day on which
\* shortSMA > longSMA (the first warmed-up day included), and no signal
\* fires before it.
C15_FirstBuy ==
  IF AboveDays = {} THEN Signals = <<>>
  ELSE /\ Len(Signals) >= 1
       /\ Signals[1].kind = "BUY"
       /\ Signals[1].day = Least(AboveDays)

C15_Witness ==
  /\ Len(Signals) >= 1
  /\ Signals[1].kind = "BUY"
  /\ Signals[1].day > longWindow
  /\ Signals[1].day = Least(AboveDays)

\* ----------------------------------------------------------------- C16
\* C16: after every warmed-up day, signal or not, prevShortSMA and
\* prevLongSMA are that day's shortSMA and longSMA; so a later day starts
\* with the averages of the day before.
C16_PrevUpdated ==
  /\ [][WarmDay => (prevShortSMA' = ShortToday /\ prevLongSMA' = LongToday)
       ]_vars
  /\ []((pc = "loop" /\ i >= 1 /\ i >= longWindow) =>
          (prevShortSMA = ShortOn(i) /\ prevLongSMA = LongOn(i)))

C16_Witness ==
  /\ pc = "loop"
  /\ i > longWindow
  /\ Len(events) > 0
  /\ Last(events).day = i
  /\ prevShortSMA = ShortOn(i)
  /\ prevLongSMA = LongOn(i)
  /\ prevShortSMA # prevLongSMA

\* ----------------------------------------------------------------- C17
\* the BUY and the SELL conjunction on the day of the step
BuyRuleToday ==
  ShortToday > LongToday /\ prevShortSMA <= prevLongSMA /\ ~positionOpen
SellRuleToday ==
  ShortToday < LongToday /\ prevShortSMA >= prevLongSMA /\ positionOpen

\* C17: a warmed-up day on which neither conjunction holds emits no event
\* and leaves positionOpen, cash and sharesOwned unchanged.
C17_NoSignalDay ==
  [][(WarmDay /\ ~BuyRuleToday /\ ~SellRuleToday) =>
       UNCHANGED <<events, positionOpen, portfolioValue, sharesOwned>>
    ]_vars

C17_Witness ==
  /\ pc = "loop"
  /\ i >= longWindow
  /\ positionOpen
  /\ sharesOwned > 0
  /\ Len(events) > 0
  /\ Last(events).kind = "BUY"
  /\ Last(events).day < i
  /\ ShortOn(i) > LongOn(i)

\* ----------------------------------------------------------------- C18
\* C18: on every day on which the BUY/SELL rules are evaluated, shortSMA
\* and longSMA are both means over at least `period` observed prices, never
\* the 0.0 sentinel, for all positive windows, shortWindow >= longWindow
\* included.
C18_NoSentinel ==
  [][(DayStep /\ ~NotWarm(currentPrices', longWindow)) =>
       /\ Len(currentPrices') >= shortWindow
       /\ Len(currentPrices') >= longWindow
       /\ ShortToday > 0
       /\ LongToday > 0
    ]_vars

\* ----------------------------------------------------------------- C19
\* C19: in every state of the day loop positionOpen is true exactly when
\* sharesOwned > 0, and sharesOwned is 0 whenever no position is open, for
\* every positive price series, prices above the available cash included.
C19_PositionHoldsShares ==
  pc = "loop" =>
    /\ positionOpen <=> sharesOwned > 0
    /\ ~positionOpen => sharesOwned = 0

\* ----------------------------------------------------------------- C20
\* mark-to-market wealth at price p, in the program's arithmetic
Wealth(cash, shares, p) == FlAdd(cash, FlMulInt(shares, p))

\* C20: a BUY, a SELL and the end-of-run liquidation leave the
\* mark-to-market wealth cash + sharesOwned * p at the price p of the trade
\* as it was immediately before.
C20_WealthPreserved ==
  [][/\ (BuyStep \/ SellStep) =>
          Wealth(portfolioValue', sharesOwned', marketData[i + 1])
            = Wealth(portfolioValue, sharesOwned, marketData[i + 1])
     /\ (FinishStep /\ positionOpen) =>
          Wealth(portfolioValue', sharesOwned', Last(marketData))
            = Wealth(portfolioValue, sharesOwned, Last(marketData))
    ]_vars

====
